---- MODULE Spec2Model ----
(***************************************************************************)
(* A model of generate_blogs.py: the script that turns the markdown files  *)
(* of blogs/ into one page, blogs.html, through blog_template.html.        *)
(*                                                                         *)
(* A Python str is a sequence of characters, each a one-character TLA+     *)
(* string; the regular expressions of the script are operators over these  *)
(* sequences that match as Python's re module matches them.                *)
(***************************************************************************)
EXTENDS Integers, Sequences, FiniteSets, TLC

VARIABLES
    pc,                  \* the statement the script is at
    blogs_dir_exists,    \* disk: BLOGS_DIR.exists()
    template_exists,     \* disk: TEMPLATE_FILE.exists()
    dir_listing,         \* disk: BLOGS_DIR.iterdir(), as [name, content] records
    template_file,       \* disk: the text of blog_template.html
    blog_paths,          \* line 16, 19
    blogs_data,          \* line 22
    template,            \* line 45
    blog_contents,       \* line 92
    blogs_with_articles, \* line 95
    blog_html,           \* line 115, 116
    out_file,            \* disk: blogs.html, Unset until written
    exit_code,           \* Unset while running, the exit status once the process has ended
    arg,                 \* the argument of a function considered on its own
    ret                  \* its result, Unset until it has returned

vars == <<pc, blogs_dir_exists, template_exists, dir_listing, template_file, blog_paths,
          blogs_data, template, blog_contents, blogs_with_articles, blog_html, out_file,
          exit_code, arg, ret>>

run_vars == <<pc, blogs_dir_exists, template_exists, dir_listing, template_file, blog_paths,
              blogs_data, template, blog_contents, blogs_with_articles, blog_html, out_file,
              exit_code>>

\* A name that may not be bound yet holds Unset, and Val(x) once it is bound to x.
Unset == <<>>

Val(x) == <<x>>

\* The grave accent (U+0060) cannot stand in a TLA+ string literal; this atom is the character.
Backtick == "GRAVE"

(***************************************************************************)
(* Characters and the str methods the script uses.                         *)
(***************************************************************************)
Digits == <<"0", "1", "2", "3", "4", "5", "6", "7", "8", "9">>

DigitSet == {Digits[i] : i \in 1..Len(Digits)}

UpperCase == <<"A", "B", "C", "D", "E", "F", "G", "H", "I", "J", "K", "L", "M", "N", "O", "P", "Q",
               "R", "S", "T", "U", "V", "W", "X", "Y", "Z">>

LowerCase == <<"a", "b", "c", "d", "e", "f", "g", "h", "i", "j", "k", "l", "m", "n", "o", "p", "q",
               "r", "s", "t", "u", "v", "w", "x", "y", "z">>

LowerSet == {LowerCase[i] : i \in 1..Len(LowerCase)}

\* \s of re, and what str.strip() strips.
Whitespace == {" ", "\t", "\n", "\r", "\f"}

Min(S) == CHOOSE x \in S : \A y \in S : x <= y

Max(S) == CHOOSE x \in S : \A y \in S : y <= x

\* "".join(seqs), halving the list so that long texts do not nest deeply
Cat(seqs) ==
    LET RECURSIVE go(_, _)
        go(lo, hi) == IF lo > hi THEN <<>>
                      ELSE IF lo = hi THEN seqs[lo]
                      ELSE go(lo, (lo + hi) \div 2) \o go(((lo + hi) \div 2) + 1, hi)
    IN go(1, Len(seqs))

\* sep.join(parts)
Join(sep, parts) ==
    Cat([i \in 1..(2 * Len(parts)) |->
            IF i % 2 = 1 THEN parts[(i + 1) \div 2]
            ELSE IF i = 2 * Len(parts) THEN <<>> ELSE sep])

\* list(reversed(xs))
Reversed(xs) == [i \in 1..Len(xs) |-> xs[Len(xs) + 1 - i]]

\* s[i:].startswith(lit), with i counted from 1
StartsWithAt(s, i, lit) ==
    /\ i >= 1
    /\ i + Len(lit) - 1 <= Len(s)
    /\ \A k \in 1..Len(lit) : s[i + k - 1] = lit[k]

\* s.startswith(lit)
StartsWith(s, lit) == StartsWithAt(s, 1, lit)

\* s.endswith(lit)
EndsWith(s, lit) == StartsWithAt(s, Len(s) - Len(lit) + 1, lit)

\* s.replace(old, new): every occurrence, left to right, without overlap
Replace(s, old, new) ==
    LET hits(from) == {i \in from..Len(s) : StartsWithAt(s, i, old)}
        RECURSIVE go(_)
        go(from) == IF hits(from) = {} THEN SubSeq(s, from, Len(s))
                    ELSE LET i == Min(hits(from))
                         IN SubSeq(s, from, i - 1) \o new \o go(i + Len(old))
    IN go(1)

\* s.lower()
Lower(s) ==
    [i \in 1..Len(s) |->
        IF \E k \in 1..Len(UpperCase) : UpperCase[k] = s[i]
        THEN LowerCase[CHOOSE k \in 1..Len(UpperCase) : UpperCase[k] = s[i]]
        ELSE s[i]]

\* s.strip(chars) for a set of characters
StripChars(s, chars) ==
    LET kept == {i \in 1..Len(s) : s[i] \notin chars}
    IN IF kept = {} THEN <<>> ELSE SubSeq(s, Min(kept), Max(kept))

\* s.strip()
Strip(s) == StripChars(s, Whitespace)

\* int(digits), base 10
ParseInt(ds) ==
    LET RECURSIVE go(_, _)
        go(i, acc) ==
            IF i > Len(ds) THEN acc
            ELSE go(i + 1, acc * 10 + (CHOOSE d \in 0..9 : Digits[d + 1] = ds[i]))
    IN go(1, 0)

\* str(n) for n >= 0, as the f-string of line 108 formats fn["number"]
IntToStr(n) ==
    LET RECURSIVE go(_)
        go(m) == IF m < 10 THEN <<Digits[m + 1]>> ELSE go(m \div 10) \o <<Digits[(m % 10) + 1]>>
    IN go(n)

\* json.dumps(text) of a str: a quoted literal with quotes, backslashes and controls escaped
JsonDumps(text) ==
    LET esc(c) == CASE c = "\"" -> <<"\\", "\"">>
                    [] c = "\\" -> <<"\\", "\\">>
                    [] c = "\n" -> <<"\\", "n">>
                    [] c = "\r" -> <<"\\", "r">>
                    [] c = "\t" -> <<"\\", "t">>
                    [] c = "\f" -> <<"\\", "f">>
                    [] OTHER -> <<c>>
    IN <<"\"">> \o Cat([i \in 1..Len(text) |-> esc(text[i])]) \o <<"\"">>

(***************************************************************************)
(* create_slug, lines 81-89.                                               *)
(***************************************************************************)
\* re.sub(r'[^a-z0-9]+', '-', s): each maximal run of other characters becomes one '-'
SubNonAlnumRuns(s) ==
    LET alnum(c) == c \in LowerSet \cup DigitSet
    IN Cat([i \in 1..Len(s) |->
               IF alnum(s[i]) THEN <<s[i]>>
               ELSE IF i = 1 \/ alnum(s[i - 1]) THEN <<"-">>
               ELSE <<>>])

create_slug(filename) ==
    LET replaced == Replace(filename, <<".", "m", "d">>, <<>>)
        stripped == StripChars(SubNonAlnumRuns(Lower(replaced)), {"-"})
    IN IF stripped # <<>> /\ stripped[1] \in DigitSet
       THEN <<"p", "o", "s", "t", "-">> \o stripped
       ELSE stripped

(***************************************************************************)
(* Footnote extraction, lines 28-36.                                       *)
(***************************************************************************)
\* ^ under re.MULTILINE: the start of the text, or just after a line feed
AtLineStart(s, i) == i = 1 \/ (i > 1 /\ i <= Len(s) + 1 /\ s[i - 1] = "\n")

\* the end of the longest run of characters of `class` that starts at i (i - 1 when empty)
RunEnd(s, i, class) == Min({j \in i..Len(s) : s[j] \notin class} \cup {Len(s) + 1}) - 1

\* the end of the longest run of characters other than a line feed that starts at i
LineEnd(s, i) == Min({j \in i..Len(s) : s[j] = "\n"} \cup {Len(s) + 1}) - 1

\* \[\^(\d+)\]: at i. The index of the ':' matched, or 0. \d+ is greedy, and giving digits
\* back cannot help: what follows the digits has to be ']'.
MarkerEnd(s, i) ==
    IF ~StartsWithAt(s, i, <<"[", "^">>) THEN 0
    ELSE LET d == RunEnd(s, i + 2, DigitSet)
         IN IF d >= i + 2 /\ StartsWithAt(s, d + 1, <<"]", ":">>) THEN d + 2 ELSE 0

\* group 1 of a marker matched at i
MarkerDigits(s, i) == SubSeq(s, i + 2, RunEnd(s, i + 2, DigitSet))

\* \s*(.+)$ from p, under re.MULTILINE: where group 2 starts, or 0 when there is no match.
\* \s* takes the longest run of whitespace, line feeds included, and gives characters back
\* one at a time until (.+) finds a character that is no line feed; (.+) then runs to the
\* end of that line, where $ matches.
TextStart(s, p) ==
    LET w == RunEnd(s, p, Whitespace)
        starts == {q \in p..(w + 1) : q <= Len(s) /\ s[q] # "\n"}
    IN IF starts = {} THEN 0 ELSE Max(starts)

\* where the pattern of line 30 matches from i: the start of group 2, or 0
FootnoteMatch(s, i) ==
    IF AtLineStart(s, i) /\ MarkerEnd(s, i) # 0 THEN TextStart(s, MarkerEnd(s, i) + 1) ELSE 0

\* lines 29-33: re.finditer(r"^\[\^(\d+)\]:\s*(.+)$", raw, flags=re.MULTILINE)
ExtractFootnotes(raw) ==
    LET hits(from) == {i \in from..Len(raw) : FootnoteMatch(raw, i) # 0}
        RECURSIVE scan(_)
        scan(from) ==
            IF hits(from) = {} THEN <<>>
            ELSE LET i == Min(hits(from))
                     q == FootnoteMatch(raw, i)
                     e == LineEnd(raw, q)
                 IN <<[number |-> ParseInt(MarkerDigits(raw, i)),
                       text |-> Strip(SubSeq(raw, q, e))]>> \o scan(e + 1)
    IN scan(1)

\* line 36: re.sub(r"^\[\^\d+\]:.*(?:\n|$)", "", raw, flags=re.MULTILINE)
RemoveFootnoteLines(raw) ==
    LET hits(from) == {i \in from..Len(raw) : AtLineStart(raw, i) /\ MarkerEnd(raw, i) # 0}
        RECURSIVE scan(_)
        scan(from) ==
            IF hits(from) = {} THEN SubSeq(raw, from, Len(raw))
            ELSE LET i == Min(hits(from))
                 IN SubSeq(raw, from, i - 1) \o scan(LineEnd(raw, MarkerEnd(raw, i) + 1) + 2)
    IN scan(1)

\* lines 26-38: one entry of blogs_data
BlogEntry(name, raw) ==
    [name |-> name, raw |-> RemoveFootnoteLines(raw), footnotes |-> ExtractFootnotes(raw)]

(***************************************************************************)
(* compile_markdown, lines 48-63.                                          *)
(***************************************************************************)
\* Where the lazy group of open(.+?)close or open(.*?)close ends when `open` has matched
\* just before index b: the index at which `close` starts, or 0 when there is no match.
\* The group takes at least minBody characters and then as few as it can; without
\* re.DOTALL it takes no line feed.
LazyClose(s, b, close, minBody, dotall) ==
    LET ends == {j \in (b + minBody)..Len(s) :
                    /\ StartsWithAt(s, j, close)
                    /\ dotall \/ \A k \in b..(j - 1) : s[k] # "\n"}
    IN IF ends = {} THEN 0 ELSE Min(ends)

\* re.sub(open(group)close, pre \1 post, s): leftmost matches, without overlap
SubDelimited(s, open, close, minBody, dotall, pre, post) ==
    LET close_of(i) == IF StartsWithAt(s, i, open)
                       THEN LazyClose(s, i + Len(open), close, minBody, dotall) ELSE 0
        hits(from) == {i \in from..Len(s) : close_of(i) # 0}
        RECURSIVE scan(_)
        scan(from) ==
            IF hits(from) = {} THEN SubSeq(s, from, Len(s))
            ELSE LET i == Min(hits(from))
                     j == close_of(i)
                 IN SubSeq(s, from, i - 1) \o pre \o SubSeq(s, i + Len(open), j - 1) \o post
                    \o scan(j + Len(close))
    IN scan(1)

\* line 54: where https://([^\s<]+)(\s) matches from i: the index of the whitespace, or 0.
\* [^\s<]+ is greedy, and giving characters back cannot help: none of them is whitespace.
AutolinkMatch(s, i) ==
    LET b == i + 8
        e == Min({j \in b..Len(s) : s[j] \in Whitespace \/ s[j] = "<"} \cup {Len(s) + 1})
    IN IF StartsWithAt(s, i, <<"h", "t", "t", "p", "s", ":", "/",
                               "/">>) /\ e > b /\ e <= Len(s) /\ s[e] \in Whitespace
       THEN e ELSE 0

\* line 54: re.sub(r"https://([^\s<]+)(\s)", r"<a href='https://\1'>https://\1</a>\2", s)
SubAutolink(s) ==
    LET hits(from) == {i \in from..Len(s) : AutolinkMatch(s, i) # 0}
        RECURSIVE scan(_)
        scan(from) ==
            IF hits(from) = {} THEN SubSeq(s, from, Len(s))
            ELSE LET i == Min(hits(from))
                     e == AutolinkMatch(s, i)
                     url == SubSeq(s, i + 8, e - 1)
                 IN SubSeq(s, from, i - 1)
                    \o <<"<", "a", " ", "h", "r", "e", "f", "=", "'", "h", "t", "t", "p", "s", ":",
                         "/", "/">> \o url
                    \o <<"'", ">", "h", "t", "t", "p", "s", ":", "/", "/">> \o url
                    \o <<"<", "/", "a", ">">> \o <<s[e]>> \o scan(e + 1)
    IN scan(1)

\* the fence of a code block
Fence == <<Backtick, Backtick, Backtick>>

\* line 51
Unescape(s) == Replace(s, <<"\\", "_">>, <<"_">>)

\* line 52
SubH4(s) ==
    SubDelimited(s, <<"#", "#", "#", " ">>, <<"\n">>, 1, FALSE,
                 <<"<", "h", "4", ">">>, <<"<", "/", "h", "4", ">", "\n">>)

\* line 53
SubH3(s) ==
    SubDelimited(s, <<"#", "#", " ">>, <<"\n">>, 1, FALSE,
                 <<"<", "h", "3", ">">>, <<"<", "/", "h", "3", ">", "\n">>)

\* line 56
SubFenceHs(s) ==
    SubDelimited(s, <<Backtick, Backtick, Backtick, "h", "s", "\n">>, Fence, 0, TRUE,
                 <<"<", "p", "r", "e", ">", "<", "c", "o", "d", "e", " ", "c", "l", "a", "s", "s",
                   "=", "'", "l", "a", "n", "g", "u", "a", "g", "e", "-", "h", "a", "s", "k", "e",
                   "l", "l", "'", ">">>,
                 <<"<", "/", "c", "o", "d", "e", ">", "<", "/", "p", "r", "e", ">">>)

\* line 57
SubFence(s) ==
    SubDelimited(s, Fence, Fence, 0, TRUE,
                 <<"<", "p", "r", "e", ">", "<", "c", "o", "d", "e", ">">>,
                 <<"<", "/", "c", "o", "d", "e", ">", "<", "/", "p", "r", "e", ">">>)

\* line 59
SubBold(s) ==
    SubDelimited(s, <<"*", "*">>, <<"*", "*">>, 1, FALSE,
                 <<"<", "s", "t", "r", "o", "n", "g", ">">>,
                 <<"<", "/", "s", "t", "r", "o", "n", "g", ">">>)

\* line 60
SubItalic(s) ==
    SubDelimited(s, <<"*">>, <<"*">>, 1, FALSE,
                 <<"<", "e", "m", ">">>, <<"<", "/", "e", "m", ">">>)

\* line 61
NormalizeNewlines(s) == Replace(Replace(s, <<"\r", "\n">>, <<"\n">>), <<"\r">>, <<"\n">>)

\* line 62
LineBreaks(s) == Replace(s, <<"\n">>, <<"<", "b", "r", ">">>)

\* lines 48-63: the rules, in the order the function applies them
compile_markdown(markdown) ==
    LineBreaks(NormalizeNewlines(SubItalic(SubBold(SubFence(SubFenceHs(
        SubAutolink(SubH3(SubH4(Unescape(markdown))))))))))

\* lines 66-74: the asserts the script runs on compile_markdown before it compiles anything
InlineTests ==
    /\ compile_markdown(<<Backtick, Backtick, Backtick, "h", "e", "l", "l", "o", Backtick,
                          Backtick, Backtick>>)
       = <<"<", "p", "r", "e", ">", "<", "c", "o", "d", "e", ">", "h", "e", "l", "l", "o", "<",
           "/", "c", "o", "d", "e", ">", "<", "/", "p", "r", "e", ">">>
    /\ compile_markdown(<<"#", "#", " ", "T", "i", "t", "l", "e", "\n">>)
       = <<"<", "h", "3", ">", "T", "i", "t", "l", "e", "<", "/", "h", "3", ">", "<", "b", "r",
           ">">>
    /\ compile_markdown(<<"#", "#", "#", " ", "S", "u", "b", "t", "i", "t", "l", "e", "\n">>)
       = <<"<", "h", "4", ">", "S", "u", "b", "t", "i", "t", "l", "e", "<", "/", "h", "4", ">",
           "<", "b", "r", ">">>
    /\ compile_markdown(<<"T", "h", "i", "s", " ", "i", "s", " ", "*", "i", "t", "a", "l", "i",
                          "c", "s", "*", "\n">>)
       = <<"T", "h", "i", "s", " ", "i", "s", " ", "<", "e", "m", ">", "i", "t", "a", "l", "i",
           "c", "s", "<", "/", "e", "m", ">", "<", "b", "r", ">">>
    /\ compile_markdown(<<"T", "h", "i", "s", " ", "i", "s", " ", "*", "*", "b", "o", "l", "d",
                          "*", "*", "\n">>)
       = <<"T", "h", "i", "s", " ", "i", "s", " ", "<", "s", "t", "r", "o", "n", "g", ">", "b",
           "o", "l", "d", "<", "/", "s", "t", "r", "o", "n", "g", ">", "<", "b", "r", ">">>
    /\ compile_markdown(<<"S", "e", "e", " ", "h", "t", "t", "p", "s", ":", "/", "/", "d", "e",
                          ".", "w", "i", "k", "i", "p", "e", "d", "i", "a", ".", "o", "r", "g",
                          "/", "w", "i", "k", "i", "/", "D", "i", "e", "\\", "_", "s", "c", "h",
                          "l", "e", "s", "i", "s", "c", "h", "e", "n", "\\", "_", "W", "e", "b",
                          "e", "r", "\n">>)
       = <<"S", "e", "e", " ", "<", "a", " ", "h", "r", "e", "f", "=", "'", "h", "t", "t", "p",
           "s", ":", "/", "/", "d", "e", ".", "w", "i", "k", "i", "p", "e", "d", "i", "a", ".",
           "o", "r", "g", "/", "w", "i", "k", "i", "/", "D", "i", "e", "_", "s", "c", "h", "l",
           "e", "s", "i", "s", "c", "h", "e", "n", "_", "W", "e", "b", "e", "r", "'", ">", "h",
           "t", "t", "p", "s", ":", "/", "/", "d", "e", ".", "w", "i", "k", "i", "p", "e", "d",
           "i", "a", ".", "o", "r", "g", "/", "w", "i", "k", "i", "/", "D", "i", "e", "_", "s",
           "c", "h", "l", "e", "s", "i", "s", "c", "h", "e", "n", "_", "W", "e", "b", "e", "r",
           "<", "/", "a", ">", "<", "b", "r", ">">>

(***************************************************************************)
(* The page: lines 16-19 and 92-116.                                       *)
(***************************************************************************)
\* Path.suffix: from the last '.' of the name, unless that is its first or last character
Suffix(name) ==
    LET dots == {i \in 1..Len(name) : name[i] = "."}
        last == CHOOSE i \in dots : \A j \in dots : j <= i
    IN IF dots # {} /\ 1 < last /\ last < Len(name) THEN SubSeq(name, last, Len(name)) ELSE <<>>

\* line 16: the filter of the directory listing
IsSelected(name) == Suffix(name) = <<".", "m", "d">> /\ ~StartsWith(name, <<"_">>)

\* lines 16-19: the names selected, latest first
BlogPaths(listing) ==
    Reversed(SelectSeq([i \in 1..Len(listing) |-> listing[i].name], IsSelected))

\* lines 24-26: the text of the file called name
ReadFile(listing, name) ==
    (CHOOSE f \in {listing[i] : i \in 1..Len(listing)} : f.name = name).content

\* line 92: one entry of the table of contents
ContentsEntry(name) ==
    <<"<", "a", " ", "h", "r", "e", "f", "=", "'", "#">> \o create_slug(name)
    \o <<"'", ">", "-", " ">> \o name
    \o <<"<", "/", "a", ">">>

BlogContents_listing_order(paths) ==
    [i \in 1..Len(paths) |-> ContentsEntry(paths[Len(paths) + 1 - i])]

\* line 92
BlogContents(paths) == [i \in 1..Len(paths) |-> ContentsEntry(paths[i])]

Calls_sorted_by_number(slug, footnotes) ==
    LET sorted == SortSeq(footnotes, LAMBDA a, b : a.number < b.number)
    IN [k \in 1..Len(sorted) |->
           <<" ", " ", "w", "i", "n", "d", "o", "w", ".", "a", "d", "d", "F", "o", "o", "t", "n",
             "o", "t", "e", "(", "\"">> \o slug \o <<"\"", ",", " ">> \o IntToStr(sorted[k].number)
           \o <<",", " ">> \o JsonDumps(sorted[k].text) \o <<")", ";">>]

\* lines 104-108: one registration call for each footnote of the entry
Calls(slug, footnotes) ==
    [k \in 1..Len(footnotes) |->
        <<" ", " ", "w", "i", "n", "d", "o", "w", ".", "a", "d", "d", "F", "o", "o", "t", "n", "o",
          "t", "e", "(", "\"">> \o slug \o <<"\"", ",", " ">> \o IntToStr(footnotes[k].number)
        \o <<",", " ">> \o JsonDumps(footnotes[k].text) \o <<")", ";">>]

\* lines 102-110
ScriptBlock(slug, footnotes) ==
    IF footnotes = <<>> THEN <<>>
    ELSE <<"<", "s", "c", "r", "i", "p", "t", ">", "d", "o", "c", "u", "m", "e", "n", "t", ".",
           "a", "d", "d", "E", "v", "e", "n", "t", "L", "i", "s", "t", "e", "n", "e", "r", "(",
           "'", "D", "O", "M", "C", "o", "n", "t", "e", "n", "t", "L", "o", "a", "d", "e", "d",
           "'", ",", " ", "f", "u", "n", "c", "t", "i", "o", "n", "(", ")", " ", "{", "\n">>
         \o Join(<<"\n">>, Calls(slug, footnotes)) \o <<"\n", "}", ")", ";", "<", "/", "s", "c",
                                                        "r", "i", "p", "t", ">">>

\* lines 97-112: entry.get("compiled", "") is the compiled text when the entry has one
ArticleHtml(entry) ==
    LET slug == create_slug(entry.name)
        blog == IF "compiled" \in DOMAIN entry THEN entry.compiled ELSE <<>>
    IN <<"<", "a", "r", "t", "i", "c", "l", "e", " ", "i", "d", "=", "\"">> \o slug
       \o <<"\"", ">", "\n">> \o blog \o <<"\n">>
       \o ScriptBlock(slug, entry.footnotes)
       \o <<"\n", "<", "/", "a", "r", "t", "i", "c", "l", "e", ">">>

\* lines 115-116
BlogHtml(tmpl, articles, contents) ==
    LET with_blogs == Replace(tmpl, <<"#", "#", "#", "B", "L", "O", "G", "S", "#", "#", "#">>,
                              Join(<<"\n", "<", "h", "r", ">", "\n">>, articles))
    IN Replace(with_blogs, <<"#", "#", "#", "B", "L", "O", "G", "-", "C", "O", "N", "T", "E", "N",
                             "T", "S", "#", "#", "#">>,
               Join(<<"<", "b", "r", ">">>, contents))

AfterTemplateCheck_no_exit(exists) == "read_template"

\* lines 40-42: where the script goes after looking for the template
AfterTemplateCheck(exists) == IF exists THEN "read_template" ELSE "exit"

(***************************************************************************)
(* The inputs considered.                                                  *)
(***************************************************************************)
MaxFiles == 2

MaxStemLen == 3

MaxFootnoteParts == 4

MaxMarkdownParts == 4

\* every sequence of at most n elements of S
SeqsUpTo(S, n) == UNION {[1..k -> S] : k \in 0..n}

FileNames ==
    {<<"a", ".", "m", "d">>,
     <<"2", "b", ".", "m", "d">>,
     <<"_", "c", ".", "m", "d">>,
     <<"d", ".", "t", "x", "t">>}

FileTexts ==
    {<<"#", "#", " ", "T", "\n", "s", "e", "e", "[", "^", "1", "]", "\n", "[", "^", "2", "]", ":",
       " ", "b", "\n", "[", "^", "1", "]", ":", " ", "a", " ", "\"", "q", "\"", "\n">>,
     <<"*", "x", "*", "\n", "[", "^", "2", "]", ":", "\n", "[", "^", "1", "]", ":", " ", "y",
       "\n">>,
     <<"[", "^", "1", "]", ":", " ", "n", "\n", "t", "e", "x", "t", "\n", "[", "^", "1", "]", ":",
       " ", "m">>,
     <<"#", "#", "#", "B", "L", "O", "G", "-", "C", "O", "N", "T", "E", "N", "T", "S", "#", "#",
       "#", "\n">>}

Templates ==
    {<<"<", "n", "a", "v", ">", "#", "#", "#", "B", "L", "O", "G", "-", "C", "O", "N", "T", "E",
       "N", "T", "S", "#", "#", "#", "<", "/", "n", "a", "v", ">", "#", "#", "#", "B", "L", "O",
       "G", "S", "#", "#", "#">>,
     <<"#", "#", "#", "B", "L", "O", "G", "S", "#", "#", "#", "<", "p", ">", "#", "#", "#", "B",
       "L", "O", "G", "-", "C", "O", "N", "T", "E", "N", "T", "S", "#", "#", "#">>}

\* a directory: at most MaxFiles files, no two of the same name, listed in any order
Listings ==
    {l \in SeqsUpTo([name : FileNames, content : FileTexts], MaxFiles) :
        \A i, j \in 1..Len(l) : i # j => l[i].name # l[j].name}

NameChars == {"a", "B", "1", "-", "_", ".", "m", "d"}

\* the file names create_slug is considered on: those line 16 selects
SlugNames ==
    {n \in {stem \o <<".", "m", "d">> : stem \in SeqsUpTo(NameChars, MaxStemLen)} : IsSelected(n)}

FootnoteParts ==
    {<<"[", "^", "1", "]", ":">>, <<"[", "^", "2", "]", ":">>,
     <<" ">>, <<"\n">>, <<"a">>, <<"b", " ", "c">>}

FootnoteTexts == {Cat(parts) : parts \in SeqsUpTo(FootnoteParts, MaxFootnoteParts)}

MarkdownParts ==
    {<<"#", "#", " ">>, <<"#", "#", "#", " ">>, <<"a">>, <<"\n">>, <<"*">>, <<" ">>,
     Fence, <<"h", "s", "\n">>, <<"h", "t", "t", "p", "s", ":", "/", "/">>, <<"\\", "_">>}

MarkdownTexts == {Cat(parts) : parts \in SeqsUpTo(MarkdownParts, MaxMarkdownParts)}

(***************************************************************************)
(* The run of the script, statement by statement.                          *)
(***************************************************************************)
NotRunning ==
    /\ pc = "idle"
    /\ blogs_dir_exists = FALSE
    /\ template_exists = FALSE
    /\ dir_listing = <<>>
    /\ template_file = <<>>
    /\ blog_paths = <<>>
    /\ blogs_data = <<>>
    /\ template = Unset
    /\ blog_contents = <<>>
    /\ blogs_with_articles = <<>>
    /\ blog_html = Unset
    /\ out_file = Unset
    /\ exit_code = Unset

Init ==
    /\ pc = "start"
    /\ blogs_dir_exists \in BOOLEAN
    /\ template_exists \in BOOLEAN
    /\ dir_listing \in (IF blogs_dir_exists THEN Listings ELSE {<<>>})
    /\ template_file \in (IF template_exists THEN Templates ELSE {<<>>})
    /\ blog_paths = <<>>
    /\ blogs_data = <<>>
    /\ template = Unset
    /\ blog_contents = <<>>
    /\ blogs_with_articles = <<>>
    /\ blog_html = Unset
    /\ out_file = Unset
    /\ exit_code = Unset
    /\ arg = <<>>
    /\ ret = Unset

\* lines 12-14
CheckBlogsDir ==
    /\ pc = "start"
    /\ IF blogs_dir_exists
       THEN pc' = "list" /\ UNCHANGED exit_code
       ELSE pc' = "exit" /\ exit_code' = Val(1)
    /\ UNCHANGED <<blogs_dir_exists, template_exists, dir_listing, template_file, blog_paths,
                   blogs_data, template, blog_contents, blogs_with_articles, blog_html,
                   out_file, arg, ret>>

\* lines 16-19
ListBlogs ==
    /\ pc = "list"
    /\ blog_paths' = BlogPaths(dir_listing)
    /\ pc' = "read"
    /\ UNCHANGED <<blogs_dir_exists, template_exists, dir_listing, template_file, blogs_data,
                   template, blog_contents, blogs_with_articles, blog_html, out_file,
                   exit_code, arg, ret>>

\* lines 23-38: one turn of the loop over blog_paths
ReadBlog ==
    /\ pc = "read"
    /\ Len(blogs_data) < Len(blog_paths)
    /\ LET blog_path == blog_paths[Len(blogs_data) + 1]
       IN blogs_data' = Append(blogs_data, BlogEntry(blog_path, ReadFile(dir_listing, blog_path)))
    /\ UNCHANGED <<pc, blogs_dir_exists, template_exists, dir_listing, template_file,
                   blog_paths, template, blog_contents, blogs_with_articles, blog_html,
                   out_file, exit_code, arg, ret>>

\* lines 40-42, once the loop of line 23 has ended
CheckTemplate ==
    /\ pc = "read"
    /\ Len(blogs_data) = Len(blog_paths)
    /\ pc' = AfterTemplateCheck(template_exists)
    /\ exit_code' = IF pc' = "exit" THEN Val(1) ELSE exit_code
    /\ UNCHANGED <<blogs_dir_exists, template_exists, dir_listing, template_file, blog_paths,
                   blogs_data, template, blog_contents, blogs_with_articles, blog_html,
                   out_file, arg, ret>>

\* lines 44-45
ReadTemplate ==
    /\ pc = "read_template"
    /\ template' = Val(template_file)
    /\ pc' = "tests"
    /\ UNCHANGED <<blogs_dir_exists, template_exists, dir_listing, template_file, blog_paths,
                   blogs_data, blog_contents, blogs_with_articles, blog_html, out_file,
                   exit_code, arg, ret>>

\* lines 66-74: a failed assert ends the process with exit status 1
RunInlineTests ==
    /\ pc = "tests"
    /\ IF InlineTests
       THEN pc' = "compile" /\ UNCHANGED exit_code
       ELSE pc' = "exit" /\ exit_code' = Val(1)
    /\ UNCHANGED <<blogs_dir_exists, template_exists, dir_listing, template_file, blog_paths,
                   blogs_data, template, blog_contents, blogs_with_articles, blog_html,
                   out_file, arg, ret>>

Compiled(data) == {i \in 1..Len(data) : "compiled" \in DOMAIN data[i]}

\* lines 77-78: one turn of the loop over blogs_data
CompileBlog ==
    /\ pc = "compile"
    /\ Cardinality(Compiled(blogs_data)) < Len(blogs_data)
    /\ LET i == Cardinality(Compiled(blogs_data)) + 1
           entry == blogs_data[i]
       IN blogs_data' = [blogs_data EXCEPT ![i] =
              [name |-> entry.name, raw |-> entry.raw, footnotes |-> entry.footnotes,
               compiled |-> compile_markdown(entry.raw)]]
    /\ UNCHANGED <<pc, blogs_dir_exists, template_exists, dir_listing, template_file,
                   blog_paths, template, blog_contents, blogs_with_articles, blog_html,
                   out_file, exit_code, arg, ret>>

\* line 92, once the loop of line 77 has ended
BuildContents ==
    /\ pc = "compile"
    /\ Cardinality(Compiled(blogs_data)) = Len(blogs_data)
    /\ blog_contents' = BlogContents(blog_paths)
    /\ pc' = "wrap"
    /\ UNCHANGED <<blogs_dir_exists, template_exists, dir_listing, template_file, blog_paths,
                   blogs_data, template, blogs_with_articles, blog_html, out_file, exit_code,
                   arg, ret>>

\* lines 96-113: one turn of the loop over blogs_data
WrapArticle ==
    /\ pc = "wrap"
    /\ Len(blogs_with_articles) < Len(blogs_data)
    /\ blogs_with_articles' =
           Append(blogs_with_articles, ArticleHtml(blogs_data[Len(blogs_with_articles) + 1]))
    /\ UNCHANGED <<pc, blogs_dir_exists, template_exists, dir_listing, template_file,
                   blog_paths, blogs_data, template, blog_contents, blog_html, out_file,
                   exit_code, arg, ret>>

\* lines 115-116, once the loop of line 96 has ended
Substitute ==
    /\ pc = "wrap"
    /\ Len(blogs_with_articles) = Len(blogs_data)
    /\ blog_html' = Val(BlogHtml(template[1], blogs_with_articles, blog_contents))
    /\ pc' = "write"
    /\ UNCHANGED <<blogs_dir_exists, template_exists, dir_listing, template_file, blog_paths,
                   blogs_data, template, blog_contents, blogs_with_articles, out_file,
                   exit_code, arg, ret>>

\* lines 118-121: the script ends here, with exit status 0
WriteOutFile ==
    /\ pc = "write"
    /\ out_file' = blog_html
    /\ pc' = "exit"
    /\ exit_code' = Val(0)
    /\ UNCHANGED <<blogs_dir_exists, template_exists, dir_listing, template_file, blog_paths,
                   blogs_data, template, blog_contents, blogs_with_articles, blog_html,
                   arg, ret>>

Next ==
    \/ CheckBlogsDir
    \/ ListBlogs
    \/ ReadBlog
    \/ CheckTemplate
    \/ ReadTemplate
    \/ RunInlineTests
    \/ CompileBlog
    \/ BuildContents
    \/ WrapArticle
    \/ Substitute
    \/ WriteOutFile

Spec == Init /\ [][Next]_vars

(***************************************************************************)
(* The functions on their own, each called once on an argument.            *)
(***************************************************************************)
SlugInit == NotRunning /\ arg \in SlugNames /\ ret = Unset

CallCreateSlug ==
    /\ ret = Unset
    /\ ret' = Val(create_slug(arg))
    /\ UNCHANGED <<run_vars, arg>>

SlugSpec == SlugInit /\ [][CallCreateSlug]_vars

FootnoteInit == NotRunning /\ arg \in FootnoteTexts /\ ret = Unset

\* lines 28-36 on the text arg
CallExtractFootnotes ==
    /\ ret = Unset
    /\ ret' = Val([raw |-> RemoveFootnoteLines(arg), footnotes |-> ExtractFootnotes(arg)])
    /\ UNCHANGED <<run_vars, arg>>

FootnoteSpec == FootnoteInit /\ [][CallExtractFootnotes]_vars

MarkdownInit == NotRunning /\ arg \in MarkdownTexts /\ ret = Unset

CallCompileMarkdown ==
    /\ ret = Unset
    /\ ret' = Val(compile_markdown(arg))
    /\ UNCHANGED <<run_vars, arg>>

MarkdownSpec == MarkdownInit /\ [][CallCompileMarkdown]_vars

(***************************************************************************)
(* What the properties below speak of: occurrences, lines, and the         *)
(* footnote definition lines of a text.                                    *)
(***************************************************************************)
Occurrences(lit, s) == {i \in 1..Len(s) : StartsWithAt(s, i, lit)}

Occurs(lit, s) == Occurrences(lit, s) # {}

\* the elements of a set of numbers, in increasing order
Ascending(S) == [k \in 1..Cardinality(S) |-> CHOOSE i \in S : Cardinality({j \in S : j <= i}) = k]

\* the lines of s, each with its line feed when it has one
Lines(s) ==
    LET starts == Ascending({i \in 1..Len(s) : AtLineStart(s, i)})
    IN [k \in 1..Len(starts) |-> SubSeq(s, starts[k], Min({LineEnd(s, starts[k]) + 1, Len(s)}))]

IsDefinitionLine(line) == MarkerEnd(line, 1) # 0

DefinitionLines(s) == SelectSeq(Lines(s), IsDefinitionLine)

BodyLines(s) == SelectSeq(Lines(s), LAMBDA line : ~IsDefinitionLine(line))

\* what follows the marker on a definition line, trimmed
Remainder(line) == Strip(SubSeq(line, MarkerEnd(line, 1) + 1, Len(line)))

LineFeedOf(line) == IF EndsWith(line, <<"\n">>) THEN <<"\n">> ELSE <<>>

\* the footnote a definition line defines, read from that line alone
FootnoteOfLine(line) == [number |-> ParseInt(MarkerDigits(line, 1)), text |-> Remainder(line)]

IsSubsequence(a, b) ==
    LET RECURSIVE go(_, _)
        go(i, j) == IF i > Len(a) THEN TRUE
                    ELSE IF j > Len(b) THEN FALSE
                    ELSE IF a[i] = b[j] THEN go(i + 1, j + 1)
                    ELSE go(i, j + 1)
    IN go(1, 1)

(***************************************************************************)
(* C1                                                                      *)
(***************************************************************************)
\* C1: for every file name the script selects, create_slug gives a slug that is not empty,
\* holds only characters of [a-z0-9-], neither starts nor ends with '-', and does not start
\* with a digit.
C1_SlugWellFormed ==
    ret # Unset =>
        LET slug == ret[1]
        IN /\ slug # <<>>
           /\ \A i \in 1..Len(slug) : slug[i] \in LowerSet \cup DigitSet \cup {"-"}
           /\ slug[1] # "-"
           /\ slug[Len(slug)] # "-"
           /\ slug[1] \notin DigitSet

(***************************************************************************)
(* C2, C3                                                                  *)
(***************************************************************************)
\* C2: extraction and removal agree line by line: the footnotes are those of the definition
\* lines of the text, one for each line in order, each with the digits of its line as number
\* and the trimmed remainder of that same line as text, and the body keeps exactly the
\* other lines; so there are as many footnotes as removed lines.
C2_FootnotesAgreeWithRemovedLines ==
    ret # Unset =>
        LET defs == DefinitionLines(arg)
        IN /\ ret[1].footnotes = [k \in 1..Len(defs) |-> FootnoteOfLine(defs[k])]
           /\ ret[1].raw = Cat(BodyLines(arg))
           /\ Len(ret[1].footnotes) = Len(Lines(arg)) - Len(Lines(ret[1].raw))

\* the text with a definition line '[^number]: text' put back, for each footnote in turn,
\* where a line was removed, or Unset when the footnotes and the body do not fit the gaps
Reinserted(original, body, footnotes) ==
    LET lines == Lines(original)
        kept == Lines(body)
        defs_upto(k) == Cardinality({j \in 1..k : IsDefinitionLine(lines[j])})
        put(f) == <<"[", "^">> \o IntToStr(f.number) \o <<"]", ":", " ">> \o f.text
    IN IF defs_upto(Len(lines)) # Len(footnotes) \/ Len(lines) - defs_upto(Len(lines)) # Len(kept)
       THEN Unset
       ELSE Val(Cat([k \in 1..Len(lines) |->
                IF IsDefinitionLine(lines[k])
                THEN put(footnotes[defs_upto(k)]) \o LineFeedOf(lines[k])
                ELSE kept[k - defs_upto(k)]]))

\* the text with each definition line trimmed to '[^number]: text'
TrimmedDefinitions(original) ==
    LET lines == Lines(original)
    IN Cat([k \in 1..Len(lines) |->
           IF IsDefinitionLine(lines[k])
           THEN <<"[", "^">> \o IntToStr(ParseInt(MarkerDigits(lines[k], 1))) \o <<"]", ":", " ">>
                \o Remainder(lines[k]) \o LineFeedOf(lines[k])
           ELSE lines[k]])

\* C3: putting the extracted footnotes back as definition lines where lines were removed
\* gives the original text again, up to the trimming of the definition lines.
C3_ReinsertionRestoresText ==
    ret # Unset =>
        Reinserted(arg, ret[1].raw, ret[1].footnotes) = Val(TrimmedDefinitions(arg))

(***************************************************************************)
(* C4                                                                      *)
(***************************************************************************)
SourceOf(name) == ReadFile(dir_listing, name)

\* the lines of an article that are registration calls, without their line feeds
CallLines(article) ==
    LET is_call(line) == StartsWith(line, <<" ", " ", "w", "i", "n", "d", "o", "w", ".", "a", "d",
                                            "d", "F", "o", "o", "t", "n", "o", "t", "e", "(">>)
        calls == SelectSeq(Lines(article), is_call)
    IN [k \in 1..Len(calls) |-> SubSeq(calls[k], 1, LineEnd(calls[k], 1))]

\* C4: in every article, the registration calls are one for each extracted footnote, in
\* the order of the footnote definition lines of the source from top to bottom, whatever
\* their numbers; an article of a post without footnotes holds no script block.
C4_CallsInDefinitionOrder ==
    \A i \in 1..Len(blogs_with_articles) :
        LET entry == blogs_data[i]
            article == blogs_with_articles[i]
            calls == CallLines(article)
            defined == DefinitionLines(SourceOf(entry.name))
            numbers == [k \in 1..Len(defined) |-> ParseInt(MarkerDigits(defined[k], 1))]
            slug_end == Min(Occurrences(<<"\"", ">">>, article)) - 1
            slug == SubSeq(article, 14, slug_end)
        IN /\ Len(calls) = Len(entry.footnotes)
           /\ \A k \in 1..Len(calls) :
                  calls[k] = <<" ", " ", "w", "i", "n", "d", "o", "w", ".", "a", "d", "d", "F",
                               "o", "o", "t", "n", "o", "t", "e", "(", "\"">>
                             \o slug \o <<"\"", ",", " ">>
                             \o IntToStr(entry.footnotes[k].number) \o <<",", " ">>
                             \o JsonDumps(entry.footnotes[k].text) \o <<")", ";">>
           /\ IsSubsequence([k \in 1..Len(calls) |-> entry.footnotes[k].number], numbers)
           /\ (\A k \in 1..Len(defined) : Remainder(defined[k]) # <<>>)
                  => [k \in 1..Len(calls) |-> entry.footnotes[k].number] = numbers
           /\ Occurs(<<"<", "s", "c", "r", "i", "p", "t", ">">>, article) <=> entry.footnotes # <<>>

C4_Witness ==
    \E i \in 1..Len(blogs_with_articles) :
        /\ Len(blogs_data[i].footnotes) = 2
        /\ blogs_data[i].footnotes[1].number > blogs_data[i].footnotes[2].number
        /\ Len(CallLines(blogs_with_articles[i])) = 2

(***************************************************************************)
(* C5                                                                      *)
(***************************************************************************)
MissingInput == ~blogs_dir_exists \/ ~template_exists

AllRead ==
    /\ Len(blogs_data) = Cardinality({i \in 1..Len(dir_listing) : IsSelected(dir_listing[i].name)})
    /\ template = Val(template_file)

\* C5: when the blogs directory or the template is missing, the run goes on (a check is
\* enabled, or a turn of the reading loop is due) until it ends with exit status 1, and
\* the output file is never written; the output file is written only
\* at the end of a run in which both checks have passed and every selected file and the
\* template have been read.
C5_OutputOnlyAfterChecksAndReads ==
    /\ MissingInput =>
          /\ out_file = Unset
          /\ pc = "exit" => exit_code = Val(1)
          /\ pc # "exit" => \/ ENABLED (CheckBlogsDir \/ ListBlogs \/ CheckTemplate)
                            \/ pc = "read" /\ Len(blogs_data) < Len(blog_paths)
    /\ out_file # Unset =>
          /\ blogs_dir_exists /\ template_exists
          /\ AllRead
          /\ out_file = blog_html
          /\ pc = "exit" /\ exit_code = Val(0)

C5_Witness ==
    /\ pc = "exit"
    /\ blogs_dir_exists /\ ~template_exists
    /\ Len(blogs_data) = 2
    /\ exit_code = Val(1)
    /\ out_file = Unset

(***************************************************************************)
(* C6                                                                      *)
(***************************************************************************)
\* the posts of the page, first to last: the selected names, last listed first
PostsOnPage ==
    LET names == [i \in 1..Len(dir_listing) |-> dir_listing[i].name]
        is_post(n) == Len(n) > 3 /\ EndsWith(n, <<".", "m", "d">>) /\ n[1] # "_"
        posts == SelectSeq(names, is_post)
    IN [i \in 1..Len(posts) |-> posts[Len(posts) + 1 - i]]

\* what stands between the literal `before` at the start of s and the next `quote`
Quoted(s, before, quote) ==
    SubSeq(s, Len(before) + 1, Min({j \in (Len(before) + 1)..Len(s) : s[j] = quote}) - 1)

HrefTarget(entry) == Quoted(entry, <<"<", "a", " ", "h", "r", "e", "f", "=", "'", "#">>, "'")

\* the ids of the article containers of a page, from top to bottom
ArticleIds(page) ==
    LET at == Ascending(Occurrences(<<"<", "a", "r", "t", "i", "c", "l", "e", " ", "i", "d", "=",
                                      "\"">>, page))
    IN [k \in 1..Len(at) |->
           Quoted(SubSeq(page, at[k], Len(page)), <<"<", "a", "r", "t", "i", "c", "l", "e", " ",
                                                    "i", "d", "=", "\"">>, "\"")]

\* C6: the table of contents has one entry for each post, in the order of the posts on
\* the page (the selected names, last listed first); the i-th entry shows '- ' and the
\* file name, and links to the id of the i-th article container.
C6_ContentsFollowArticles ==
    /\ pc \in {"wrap", "write"} \/ out_file # Unset =>
          /\ Len(blog_contents) = Len(PostsOnPage)
          /\ \A i \in 1..Len(blog_contents) :
                 /\ StartsWith(blog_contents[i], <<"<", "a", " ", "h", "r", "e", "f", "=", "'",
                                                   "#">>)
                 /\ blog_contents[i] = <<"<", "a", " ", "h", "r", "e", "f", "=", "'", "#">>
                                       \o HrefTarget(blog_contents[i])
                                       \o <<"'", ">", "-", " ">> \o PostsOnPage[i]
                                       \o <<"<", "/", "a", ">">>
    /\ \A i \in 1..Len(blogs_with_articles) :
          ArticleIds(blogs_with_articles[i]) = <<HrefTarget(blog_contents[i])>>
    /\ out_file # Unset =>
          ArticleIds(out_file[1]) = [i \in 1..Len(blog_contents) |-> HrefTarget(blog_contents[i])]

C6_Witness ==
    /\ out_file # Unset
    /\ Len(blog_contents) = 2
    /\ HrefTarget(blog_contents[1]) # HrefTarget(blog_contents[2])
    /\ Len(ArticleIds(out_file[1])) = 2

(***************************************************************************)
(* C7, C8, C9                                                              *)
(***************************************************************************)
\* C7, for a text with one fenced block (two fences): what stands between the fences,
\* after ```hs and its line feed when the block is tagged, is found between the tags of
\* the block in the result, character for character (escaped underscores unescaped).
C7_FencedContentsUnchanged ==
    ret # Unset /\ Cardinality(Occurrences(Fence, arg)) = 2 =>
        LET open == Min(Occurrences(Fence, arg))
            close == Max(Occurrences(Fence, arg))
            tagged == StartsWithAt(arg, open + 3, <<"h", "s", "\n">>)
            contents == Unescape(SubSeq(arg, open + (IF tagged THEN 6 ELSE 3), close - 1))
        IN Occurs((IF tagged THEN <<"<", "p", "r", "e", ">", "<", "c", "o", "d", "e", " ", "c",
                                    "l", "a", "s", "s", "=", "'", "l", "a", "n", "g", "u", "a",
                                    "g", "e", "-", "h", "a", "s", "k", "e", "l", "l", "'", ">">>
                   ELSE <<"<", "p", "r", "e", ">", "<", "c", "o", "d", "e",
                          ">">>) \o contents \o <<"<", "/", "c", "o", "d", "e", ">", "<", "/", "p",
                                                  "r", "e", ">">>,
                  ret[1])

\* C8, for a text in which the autolink rule finds one URL: the result holds the anchor
\* of that URL, href and visible text both the URL, followed by the whitespace character
\* in its final form (a line feed as <br>).
C8_AutolinkAnchorsIntact ==
    LET before == SubH3(SubH4(Unescape(arg)))
        found == Occurrences(<<"h", "t", "t", "p", "s", ":", "/", "/">>, before)
    IN ret # Unset /\ Cardinality(found) = 1 /\ AutolinkMatch(before, Min(found)) # 0 =>
           LET e == AutolinkMatch(before, Min(found))
               url == SubSeq(before, Min(found), e - 1)
               final == IF before[e] = "\n" THEN <<"<", "b", "r", ">">> ELSE <<before[e]>>
           IN Occurs(<<"<", "a", " ", "h", "r", "e", "f", "=", "'">> \o url
                     \o <<"'", ">">> \o url
                     \o <<"<", "/", "a", ">">> \o final,
                     ret[1])

\* a line made of the marker, some text, and a line feed
IsHeadingLine(line, marker) ==
    StartsWith(line, marker) /\ Len(line) >= Len(marker) + 2 /\ EndsWith(line, <<"\n">>)

\* C9: the result holds one <h4> for each line made of '### ', text and a line feed,
\* one <h3> for each line made of '## ', text and a line feed, and no other heading.
C9_HeadingsAreHeadingLines ==
    ret # Unset =>
        LET lines == Lines(arg)
            count(marker) ==
                Cardinality({k \in 1..Len(lines) : IsHeadingLine(lines[k], marker)})
            tags(tag) == Cardinality(Occurrences(tag, ret[1]))
        IN /\ tags(<<"<", "h", "4", ">">>) = count(<<"#", "#", "#", " ">>)
           /\ tags(<<"<", "h", "3", ">">>) = count(<<"#", "#", " ">>)

(***************************************************************************)
(* C10                                                                     *)
(***************************************************************************)
\* C10: every article block is found in the written page as it was assembled.
C10_ArticlesAppearAsAssembled ==
    out_file # Unset =>
        \A i \in 1..Len(blogs_with_articles) : Occurs(blogs_with_articles[i], out_file[1])

====
